---- MODULE Spec2Model ----
(***************************************************************************)
(* SQLServerBackupStrategy.backup (src/src/strategies/sqlserver_strategy.py) *)
(* as a state machine: one invocation of backup() against one database.    *)
(*                                                                         *)
(* The script file is a sequence of tokens, one per statement, comment     *)
(* banner or batch separator written (blank lines are not tokens).  The    *)
(* system catalog of the database is fixed during one invocation.  Every   *)
(* catalog query, and every open of the script file, may raise.            *)
(***************************************************************************)
EXTENDS Integers, Sequences, FiniteSets, TLC

\* ------------------------------------------------------------------ bounds

\* Largest number of tables in sys.tables (tables are named 1..MaxTables,
\* the order of ORDER BY s.name, t.name).
MaxTables == 2
\* Longest user / password string.
MaxCredLen == 2
\* Largest number of full batches of a table's rows.
MaxBatches == 2

\* batch_size, _generate_data
BatchSize == 400

\* ------------------------------------------------------------------ state

VARIABLES
    pc,                 \* position of backup()
    user,               \* db_config.user
    password,           \* db_config.password
    sys_tables,         \* catalog: table name -> [is_ms_shipped, is_identity, seed_value,
                        \*   increment_value, has_pk, rows, value]
    sys_foreign_keys,   \* catalog: sequence of [name, parent, referenced, cols]
    conn,               \* "none" | "open" | "closed"
    connect_calls,      \* number of calls of _connect
    file_exists,        \* script_file exists on disk
    script,             \* content of script_file
    log,                \* logger.warning / logger.error records, in order
    results,            \* BackupResults returned by backup()
    raised              \* an exception left backup()

vars == <<pc, user, password, sys_tables, sys_foreign_keys, conn, connect_calls,
          file_exists, script, log, results, raised>>

\* ------------------------------------------------------------------ tokens

\* v: the VALUES list of an INSERT statement, empty for every other token
Tok(k, t, r, n) == [k |-> k, t |-> t, r |-> r, n |-> n, v |-> <<>>]

GO == Tok("GO", 0, 0, 0)
Banner(name) == Tok(name, 0, 0, 0)

\* ------------------------------------------------------------------ credentials

Chars == {"$", "{", "a"}

CredStrings == UNION {[1..n -> Chars] : n \in 0..MaxCredLen}

\* Python: sub in s
IsSubstring(sub, s) ==
    \E i \in 0..(Len(s) - Len(sub)) :
        \A j \in 1..Len(sub) : s[i + j] = sub[j]

Placeholder == <<"$", "{">>

\* backup(): "if not db_config.user or not db_config.password"
CredentialsMissing(u, p) == Len(u) = 0 \/ Len(p) = 0

UnresolvedUserOnly(u, p) == IsSubstring(Placeholder, u)

\* backup(): "if '${' in db_config.user or '${' in db_config.password"
CredentialsUnresolved(u, p) ==
    IsSubstring(Placeholder, u) \/ IsSubstring(Placeholder, p)

\* ------------------------------------------------------------------ results

BackupResult(success, output_file, error) ==
    [success |-> success, output_file |-> output_file, error |-> error]

ErrCredentials == "Usuario o contrasena no configurados"
ErrUnresolved == "Variables de entorno no resueltas"
ErrConnect == "No se pudo conectar a SQL Server"
ErrSchema == "Error generando estructura"
ErrData == "Error generando datos"
ErrException == "str(e)"

ScriptPath == "script_file"

\* ------------------------------------------------------------------ catalog

Min(a, b) == IF a < b THEN a ELSE b

RECURSIVE SortedSeq(_)
\* ORDER BY: the names of S in increasing order
SortedSeq(S) ==
    IF S = {} THEN <<>>
    ELSE LET m == CHOOSE x \in S : \A y \in S : x <= y
         IN <<m>> \o SortedSeq(S \ {m})

\* _generate_schema / _generate_data: SELECT s.name, t.name FROM sys.tables t ...
\* WHERE t.is_ms_shipped = 0 ORDER BY s.name, t.name
TablesQuery == SortedSeq({t \in DOMAIN sys_tables : ~sys_tables[t].is_ms_shipped})

NoFault == [at |-> 0, stage |-> "none"]

\* ------------------------------------------------------------------ header

\* backup(): open(script_file, 'w') and the header block
HeaderText == <<Banner("HEADER"), Tok("USE", 0, 0, 0), GO>>

\* ------------------------------------------------------------------ schema

\* _generate_schema: table comment and drop-if-exists guard
TableGuard(t) == <<Tok("TABLE_COMMENT", t, 0, 0), Tok("DROP_TABLE", t, 0, 0), GO>>

\* the seed and the increment _generate_schema writes in an identity
\* annotation: the literal " IDENTITY(1,1)"
IdentitySeedWritten(t) == 1
IdentityIncrementWritten(t) == 1

\* _generate_schema: CREATE TABLE with its column lines; r and n are the seed
\* and the increment of the identity annotation of a column line, 0 and 0
\* when no column line carries one
TableCreate(t) ==
    IF sys_tables[t].is_identity
    THEN <<Tok("CREATE_TABLE", t, IdentitySeedWritten(t), IdentityIncrementWritten(t)), GO>>
    ELSE <<Tok("CREATE_TABLE", t, 0, 0), GO>>

\* _generate_schema: "if pk and pk[1]"
TablePrimaryKey(t) ==
    IF sys_tables[t].has_pk THEN <<Tok("ADD_PRIMARY_KEY", t, 0, 0), GO>> ELSE <<>>

RECURSIVE SchemaTables(_, _, _)
\* _generate_schema: "for i, (schema, table) in enumerate(tables, 1)"; the
\* columns query or the primary-key query of table fault.at raises
SchemaTables(tables, i, fault) ==
    IF i > Len(tables) THEN <<>>
    ELSE IF fault.at = i /\ fault.stage = "columns" THEN TableGuard(tables[i])
    ELSE IF fault.at = i /\ fault.stage = "pk"
         THEN TableGuard(tables[i]) \o TableCreate(tables[i])
    ELSE TableGuard(tables[i]) \o TableCreate(tables[i]) \o TablePrimaryKey(tables[i])
         \o SchemaTables(tables, i + 1, fault)

\* where _generate_schema can raise: opening the file, the tables query, and
\* per table the columns query and the primary-key query
SchemaFaults ==
    {NoFault} \cup {[at |-> 0, stage |-> s] : s \in {"open", "tables"}}
    \cup {[at |-> i, stage |-> s] : i \in 1..Len(TablesQuery), s \in {"columns", "pk"}}

\* text appended to the script by _generate_schema
GenerateSchemaText(fault) ==
    IF fault.stage = "open" THEN <<>>
    ELSE IF fault.stage = "tables" THEN <<Banner("SCHEMA_BANNER")>>
    ELSE <<Banner("SCHEMA_BANNER")>> \o SchemaTables(TablesQuery, 1, fault)

\* ------------------------------------------------------------------ data

\* A row value as pyodbc returns it: its Python type and its content: the
\* characters of a str, the bytes of a bytes, and for every other type the
\* pieces of str(v).
Value(type, content) == [type |-> type, content |-> content]

Quote == "'"

RECURSIVE DoubleQuotes(_)
\* _generate_data: v.replace("'", "''")
DoubleQuotes(chars) ==
    IF chars = <<>> THEN <<>>
    ELSE (IF Head(chars) = Quote THEN <<Quote, Quote>> ELSE <<Head(chars)>>)
         \o DoubleQuotes(Tail(chars))

\* bytes.hex(): two lowercase hex digits per byte
HexOfByte(b) ==
    CASE b = "\\x00" -> "00"
      [] b = "\\xab" -> "ab"

BytesHex(bytes) == [i \in 1..Len(bytes) |-> HexOfByte(bytes[i])]

\* the types with an isoformat attribute
IsoformatTypes == {"datetime", "date", "time"}

\* _generate_data: the literal of one row value ("for v in row"); every type
\* the chain of tests does not name is rendered by str(v)
EncodeValue(v) ==
    IF v.type = "NoneType" THEN <<"NULL">>
    ELSE IF v.type = "str" THEN <<Quote>> \o DoubleQuotes(v.content) \o <<Quote>>
    ELSE IF v.type \in IsoformatTypes THEN <<Quote>> \o v.content \o <<Quote>>
    ELSE IF v.type \in {"bytes", "bytearray"}
         THEN IF v.content # <<>> THEN <<"0x">> \o BytesHex(v.content) ELSE <<"NULL">>
    ELSE IF v.type = "bool" THEN IF v.content = <<"True">> THEN <<"1">> ELSE <<"0">>
    ELSE v.content

\* _generate_data: INSERT INTO ... VALUES (...) of row n of table t
InsertStatement(t, n) ==
    [Tok("INSERT", t, 0, n) EXCEPT !.v = EncodeValue(sys_tables[t].value)]

RECURSIVE BatchesOneSeparator(_, _, _)
BatchesOneSeparator(t, n, batch_start) ==
    IF batch_start >= n THEN <<>>
    ELSE [i \in 1..(Min(batch_start + BatchSize, n) - batch_start) |->
              InsertStatement(t, batch_start + i)]
         \o (IF batch_start + BatchSize >= n THEN <<GO>> ELSE <<>>)
         \o BatchesOneSeparator(t, n, batch_start + BatchSize)

RECURSIVE Batches(_, _, _)
\* _generate_data: "for batch_start in range(0, len(rows), batch_size)": one
\* INSERT per row of the batch, then GO
Batches(t, n, batch_start) ==
    IF batch_start >= n THEN <<>>
    ELSE [i \in 1..(Min(batch_start + BatchSize, n) - batch_start) |->
              InsertStatement(t, batch_start + i)]
         \o <<GO>> \o Batches(t, n, batch_start + BatchSize)

IdentityOn(t) == Tok("IDENTITY_INSERT_ON", t, 0, 0)
IdentityOff(t) == Tok("IDENTITY_INSERT_OFF", t, 0, 0)

\* _generate_data: what is written before the first row of a table
DataBlockStart(t, total, has_identity) ==
    <<Tok("DATA_COMMENT", t, 0, total)>>
    \o (IF has_identity THEN <<IdentityOn(t)>> ELSE <<>>)

RECURSIVE BatchesToggled(_, _, _)
BatchesToggled(t, n, batch_start) ==
    IF batch_start >= n THEN <<>>
    ELSE <<IdentityOn(t)>>
         \o [i \in 1..(Min(batch_start + BatchSize, n) - batch_start) |->
                InsertStatement(t, batch_start + i)]
         \o <<GO, IdentityOff(t)>> \o BatchesToggled(t, n, batch_start + BatchSize)

DataBlockTogglePerBatch(t, total, has_identity) ==
    <<Tok("DATA_COMMENT", t, 0, total)>>
    \o (IF has_identity THEN BatchesToggled(t, total, 0) ELSE Batches(t, total, 0))

\* _generate_data: the whole block of one table with total > 0 rows
DataBlock(t, total, has_identity) ==
    DataBlockStart(t, total, has_identity)
    \o Batches(t, total, 0)
    \o (IF has_identity THEN <<IdentityOff(t)>> ELSE <<>>)

TableDataNoSkip(t) == DataBlock(t, sys_tables[t].rows, sys_tables[t].is_identity)

\* _generate_data: "if total == 0: continue", else the table's block
TableData(t) ==
    IF sys_tables[t].rows = 0 THEN <<>>
    ELSE DataBlock(t, sys_tables[t].rows, sys_tables[t].is_identity)

RECURSIVE DataTables(_, _, _)
\* _generate_data: "for i, (schema, table) in enumerate(tables, 1)"; one of
\* the queries of table fault.at raises (nothing of its block is written), or
\* writing its first row raises
DataTables(tables, i, fault) ==
    IF i > Len(tables) THEN <<>>
    ELSE IF fault.at = i /\ fault.stage = "query" THEN <<>>
    ELSE IF fault.at = i /\ fault.stage = "write"
         THEN DataBlockStart(tables[i], sys_tables[tables[i]].rows,
                             sys_tables[tables[i]].is_identity)
    ELSE TableData(tables[i]) \o DataTables(tables, i + 1, fault)

\* where _generate_data can raise
DataFaults ==
    {NoFault} \cup {[at |-> 0, stage |-> s] : s \in {"open", "tables"}}
    \cup {[at |-> i, stage |-> "query"] : i \in 1..Len(TablesQuery)}
    \cup {[at |-> i, stage |-> "write"] :
            i \in {j \in 1..Len(TablesQuery) : sys_tables[TablesQuery[j]].rows > 0}}

\* text appended to the script by _generate_data
GenerateDataText(fault) ==
    IF fault.stage = "open" THEN <<>>
    ELSE IF fault.stage = "tables" THEN <<Banner("DATA_BANNER")>>
    ELSE <<Banner("DATA_BANNER")>> \o DataTables(TablesQuery, 1, fault)

\* ------------------------------------------------------------------ extras

\* Outcomes of an extras step: its catalog query raises ("fail"), returns no
\* row ("empty") or returns rows ("rows"); _generate_indexes can be handed an
\* index without columns ("nocols"); sys.sql_modules.definition is NULL for an
\* encrypted module, and "definition + ..." then raises ("null_definition").
QueryOutcomes == {"fail", "empty", "rows"}
IndexOutcomes == QueryOutcomes \cup {"nocols"}
ModuleOutcomes == QueryOutcomes \cup {"null_definition"}

\* the step ends in its "except Exception" handler
StepRaises(outcome) == outcome \in {"fail", "null_definition"}

\* a logger record: the message and the exception it formats
LogRecord(msg, e) == [msg |-> msg, e |-> e]

\* the exception an extras step logs: the one of cursor.execute, or the
\* TypeError of "definition + ..."
StepException(outcome) == IF outcome = "fail" THEN "query" ELSE "TypeError"

\* text appended by _generate_defaults
DefaultsText(outcome) ==
    IF outcome = "rows"
    THEN <<Banner("DEFAULTS_BANNER"), Tok("ADD_DEFAULT", 0, 0, 0), GO>>
    ELSE <<>>

\* text appended by _generate_indexes ("if cols")
IndexesText(outcome) ==
    IF outcome = "rows"
    THEN <<Banner("INDEXES_BANNER"), Tok("CREATE_INDEX", 0, 0, 0), GO>>
    ELSE IF outcome = "nocols" THEN <<Banner("INDEXES_BANNER")>>
    ELSE <<>>

\* text appended by _generate_stored_procedures
ProceduresText(outcome) ==
    IF outcome = "rows"
    THEN <<Banner("PROCEDURES_BANNER"), Tok("DROP_PROCEDURE", 0, 0, 0), GO,
           Tok("CREATE_PROCEDURE", 0, 0, 0), GO>>
    ELSE IF outcome = "null_definition"
    THEN <<Banner("PROCEDURES_BANNER"), Tok("DROP_PROCEDURE", 0, 0, 0), GO>>
    ELSE <<>>

RECURSIVE FkRowsFrom(_, _)
\* _generate_foreign_keys: the query returns one row per column pair of each
\* constraint, ORDER BY fk.name, fkc.constraint_column_id
FkRowsFrom(fks, i) ==
    IF i > Len(fks) THEN <<>>
    ELSE [c \in 1..fks[i].cols |->
             [key |-> [name |-> fks[i].name, parent |-> fks[i].parent,
                       referenced |-> fks[i].referenced],
              col |-> c]]
         \o FkRowsFrom(fks, i + 1)

FkRows == FkRowsFrom(sys_foreign_keys, 1)

RECURSIVE FkMapKeys(_, _, _)
\* _generate_foreign_keys: fk_map.setdefault(key, []).append(...): the keys of
\* fk_map in insertion order
FkMapKeys(rows, i, keys) ==
    IF i > Len(rows) THEN keys
    ELSE IF \E j \in 1..Len(keys) : keys[j] = rows[i].key
         THEN FkMapKeys(rows, i + 1, keys)
    ELSE FkMapKeys(rows, i + 1, Append(keys, rows[i].key))

RECURSIVE FkStatements(_, _)
\* _generate_foreign_keys: one ALTER TABLE ... ADD CONSTRAINT ... FOREIGN KEY
\* per key of fk_map, then GO
FkStatements(keys, i) ==
    IF i > Len(keys) THEN <<>>
    ELSE <<Tok("ADD_FOREIGN_KEY", keys[i].parent, keys[i].referenced, keys[i].name), GO>>
         \o FkStatements(keys, i + 1)

\* text appended by _generate_foreign_keys
ForeignKeysText(outcome) ==
    IF outcome = "fail" \/ Len(FkRows) = 0 THEN <<>>
    ELSE <<Banner("FOREIGN_KEYS_BANNER")>>
         \o FkStatements(FkMapKeys(FkRows, 1, <<>>), 1)

TriggersTextBannerFirst(outcome) ==
    IF outcome = "rows"
    THEN <<Banner("TRIGGERS_BANNER"), Tok("DROP_TRIGGER", 0, 0, 0), GO,
           Tok("CREATE_TRIGGER", 0, 0, 0), GO>>
    ELSE IF outcome = "null_definition"
    THEN <<Banner("TRIGGERS_BANNER"), Tok("DROP_TRIGGER", 0, 0, 0), GO>>
    ELSE IF outcome = "fail" THEN <<Banner("TRIGGERS_BANNER")>>
    ELSE <<>>

\* text appended by _generate_triggers
TriggersText(outcome) ==
    IF outcome = "rows"
    THEN <<Banner("TRIGGERS_BANNER"), Tok("DROP_TRIGGER", 0, 0, 0), GO,
           Tok("CREATE_TRIGGER", 0, 0, 0), GO>>
    ELSE IF outcome = "null_definition"
    THEN <<Banner("TRIGGERS_BANNER"), Tok("DROP_TRIGGER", 0, 0, 0), GO>>
    ELSE <<>>

\* ------------------------------------------------------------------ control

None == "None"

Terminal == {"Done", "Failed"}

\* backup(): a "return BackupResult(...)" statement
Return(result) == results' = Append(results, result)

PropagateException ==
    /\ pc' = "Failed"
    /\ raised' = TRUE
    /\ UNCHANGED <<log, results>>

\* backup(): "except Exception as e": log the error, return a failed result
CatchException ==
    /\ pc' = "Failed"
    /\ log' = Append(log, LogRecord("ERROR backup", "str(e)"))
    /\ Return(BackupResult(FALSE, None, ErrException))
    /\ UNCHANGED raised

ConnLeftAsIs == conn

\* backup(): "finally: conn.close()"
ConnAfterFinally == "closed"

SchemaFailureIgnored(fault) == FALSE

\* backup(): "if not self._generate_schema(...)": _generate_schema returns
\* False exactly when it caught an exception
SchemaFailed(fault) == fault # NoFault

\* backup(): "if not self._generate_data(...)"
DataFailed(fault) == fault # NoFault

ExtrasOrderForeignKeysFirst ==
    <<"ForeignKeys", "Defaults", "Indexes", "Procedures", "Triggers">>

ExtrasOrderForeignKeysSecond ==
    <<"Defaults", "ForeignKeys", "Indexes", "Procedures", "Triggers">>

\* backup(): the extras steps in the order of their calls
ExtrasOrder == <<"Defaults", "Indexes", "Procedures", "ForeignKeys", "Triggers">>

\* the statement after extras step `step` of backup()
AfterStep(step) ==
    LET i == CHOOSE j \in 1..Len(ExtrasOrder) : ExtrasOrder[j] = step
    IN IF i < Len(ExtrasOrder) THEN ExtrasOrder[i + 1] ELSE "Finishing"

\* ------------------------------------------------------------------ actions

\* backup(): credential validation
Validate ==
    /\ pc = "Validating"
    /\ IF CredentialsMissing(user, password)
       THEN /\ Return(BackupResult(FALSE, None, ErrCredentials))
            /\ pc' = "Failed"
       ELSE IF CredentialsUnresolved(user, password)
       THEN /\ Return(BackupResult(FALSE, None, ErrUnresolved))
            /\ pc' = "Failed"
       ELSE /\ pc' = "Connecting"
            /\ UNCHANGED results
    /\ UNCHANGED <<user, password, sys_tables, sys_foreign_keys, conn, connect_calls,
                   file_exists, script, log, raised>>

\* backup(): script_file.parent.mkdir(...), then _connect
Connect ==
    /\ pc = "Connecting"
    /\ \E outcome \in {"mkdir_raises", "pyodbc_error", "other_error", "connected"} :
        /\ connect_calls' = IF outcome = "mkdir_raises" THEN connect_calls
                            ELSE connect_calls + 1
        /\ IF outcome = "connected"
           THEN /\ conn' = "open"
                /\ pc' = "Header"
                /\ UNCHANGED <<log, results, raised>>
           ELSE IF outcome = "pyodbc_error"
           THEN /\ log' = Append(log, LogRecord("ERROR _connect", "pyodbc.Error"))
                /\ Return(BackupResult(FALSE, None, ErrConnect))
                /\ pc' = "Failed"
                /\ UNCHANGED <<conn, raised>>
           ELSE /\ CatchException
                /\ UNCHANGED conn
    /\ UNCHANGED <<user, password, sys_tables, sys_foreign_keys, file_exists, script>>

\* backup(): open(script_file, 'w') and the header
WriteHeader ==
    /\ pc = "Header"
    /\ \E outcome \in {"open_raises", "write_raises", "written"} :
        /\ file_exists' = IF outcome = "open_raises" THEN file_exists ELSE TRUE
        /\ script' = IF outcome = "written" THEN HeaderText
                     ELSE IF outcome = "write_raises" THEN <<>> ELSE script
        /\ IF outcome = "written"
           THEN /\ pc' = "SchemaPhase"
                /\ UNCHANGED <<conn, log, results, raised>>
           ELSE /\ conn' = ConnAfterFinally
                /\ CatchException
    /\ UNCHANGED <<user, password, sys_tables, sys_foreign_keys, connect_calls>>

\* backup(): step 1, _generate_schema
GenerateSchema ==
    /\ pc = "SchemaPhase"
    /\ \E fault \in SchemaFaults :
        /\ script' = script \o GenerateSchemaText(fault)
        /\ log' = IF fault = NoFault THEN log
                  ELSE Append(log, LogRecord("ERROR _generate_schema", fault.stage))
        /\ IF SchemaFailed(fault)
           THEN /\ Return(BackupResult(FALSE, None, ErrSchema))
                /\ conn' = ConnAfterFinally
                /\ pc' = "Failed"
           ELSE /\ pc' = "DataPhase"
                /\ UNCHANGED <<conn, results>>
    /\ UNCHANGED <<user, password, sys_tables, sys_foreign_keys, connect_calls,
                   file_exists, raised>>

\* backup(): step 2, _generate_data
GenerateData ==
    /\ pc = "DataPhase"
    /\ \E fault \in DataFaults :
        /\ script' = script \o GenerateDataText(fault)
        /\ log' = IF fault = NoFault THEN log
                  ELSE Append(log, LogRecord("ERROR _generate_data", fault.stage))
        /\ IF DataFailed(fault)
           THEN /\ Return(BackupResult(FALSE, None, ErrData))
                /\ conn' = ConnAfterFinally
                /\ pc' = "Failed"
           ELSE /\ pc' = ExtrasOrder[1]
                /\ UNCHANGED <<conn, results>>
    /\ UNCHANGED <<user, password, sys_tables, sys_foreign_keys, connect_calls,
                   file_exists, raised>>

\* an extras step of backup(): its text is appended, an exception is logged
\* as a warning, and backup() goes on with the next statement
ExtrasStep(step, text, outcome, warning) ==
    /\ pc = step
    /\ script' = script \o text
    /\ log' = IF StepRaises(outcome)
              THEN Append(log, LogRecord(warning, StepException(outcome)))
              ELSE log
    /\ pc' = AfterStep(step)
    /\ UNCHANGED <<user, password, sys_tables, sys_foreign_keys, conn, connect_calls,
                   file_exists, results, raised>>

GenerateDefaults ==
    \E outcome \in QueryOutcomes :
        ExtrasStep("Defaults", DefaultsText(outcome), outcome,
                   "WARNING DEFAULTs")

GenerateIndexes ==
    \E outcome \in IndexOutcomes :
        ExtrasStep("Indexes", IndexesText(outcome), outcome,
                   "WARNING indices")

GenerateStoredProcedures ==
    \E outcome \in ModuleOutcomes :
        ExtrasStep("Procedures", ProceduresText(outcome), outcome,
                   "WARNING procedimientos")

GenerateForeignKeys ==
    \E outcome \in {"fail", "rows"} :
        ExtrasStep("ForeignKeys", ForeignKeysText(outcome), outcome,
                   "WARNING FKs")

GenerateTriggers ==
    \E outcome \in ModuleOutcomes :
        ExtrasStep("Triggers", TriggersText(outcome), outcome,
                   "WARNING TRIGGERS")

\* backup(): the successful return, through "finally: conn.close()"
Finish ==
    /\ pc = "Finishing"
    /\ Return(BackupResult(TRUE, ScriptPath, None))
    /\ conn' = ConnAfterFinally
    /\ pc' = "Done"
    /\ UNCHANGED <<user, password, sys_tables, sys_foreign_keys, connect_calls,
                   file_exists, script, log, raised>>

Next ==
    \/ Validate
    \/ Connect
    \/ WriteHeader
    \/ GenerateSchema
    \/ GenerateData
    \/ GenerateDefaults
    \/ GenerateIndexes
    \/ GenerateStoredProcedures
    \/ GenerateForeignKeys
    \/ GenerateTriggers
    \/ Finish

\* ------------------------------------------------------------------ initial states

\* a call of backup() has just begun; nothing is connected, written or returned
InitCall ==
    /\ pc = "Validating"
    /\ conn = "none"
    /\ connect_calls = 0
    /\ file_exists = FALSE
    /\ script = <<>>
    /\ log = <<>>
    /\ results = <<>>
    /\ raised = FALSE

\* a table of sys.tables the tables query leaves out
ShippedTable ==
    [is_ms_shipped |-> TRUE, is_identity |-> FALSE, seed_value |-> 0,
     increment_value |-> 0, has_pk |-> FALSE, rows |-> 0, value |-> Value("int", <<"1">>)]

\* a user table whose rows hold `value`; seed and increment are 0 when it has
\* no identity column
ColumnTable(is_identity, seed, increment, has_pk, rows, value) ==
    [is_ms_shipped |-> FALSE, is_identity |-> is_identity, seed_value |-> seed,
     increment_value |-> increment, has_pk |-> has_pk, rows |-> rows, value |-> value]

\* a user table of integers, its identity column (if any) declared IDENTITY(1,1)
UserTable(is_identity, has_pk, rows) ==
    ColumnTable(is_identity, IF is_identity THEN 1 ELSE 0, IF is_identity THEN 1 ELSE 0,
                has_pk, rows, Value("int", <<"1">>))

\* catalogs of at most MaxTables tables, each empty or with one row, shipped
\* or not, and at most one foreign key between any two of them
SmallTables == {ShippedTable} \cup {UserTable(FALSE, TRUE, r) : r \in {0, 1}}

ForeignKeysOver(names) ==
    {<<>>} \cup {<<[name |-> 1, parent |-> p, referenced |-> r, cols |-> c]>> :
                    p \in names, r \in names, c \in {1, 2}}

Init ==
    /\ InitCall
    /\ user = <<"a">>
    /\ password = <<"a">>
    /\ sys_tables \in UNION {[S -> SmallTables] : S \in SUBSET (1..MaxTables)}
    /\ sys_foreign_keys \in ForeignKeysOver(DOMAIN sys_tables)

Spec == Init /\ [][Next]_vars

\* every pair of credentials, against one table with an identity column, a
\* primary key and one row
InitCredentials ==
    /\ InitCall
    /\ user \in CredStrings
    /\ password \in CredStrings
    /\ sys_tables = (1 :> UserTable(TRUE, TRUE, 1))
    /\ sys_foreign_keys = <<>>

CredentialsSpec == InitCredentials /\ [][Next]_vars

\* missing, unresolved and usable credentials, against the same catalog
InitTermination ==
    /\ InitCall
    /\ user \in {<<>>, <<"a">>, <<"$", "{">>}
    /\ password \in {<<>>, <<"a">>, <<"$", "{">>}
    /\ sys_tables = (1 :> UserTable(TRUE, TRUE, 1))
    /\ sys_foreign_keys = <<>>

\* backup() is one sequential call: a step that can be taken is taken
TerminationSpec == InitTermination /\ [][Next]_vars /\ WF_vars(Next)

\* row counts around the batch boundaries
BatchRows == {0, 1} \cup {k * BatchSize + d : k \in 1..MaxBatches, d \in {0, 1}}

\* a first table with or without identity column and primary key and with a
\* row count around a batch boundary, and possibly a second, small table
InitBatches ==
    /\ InitCall
    /\ user = <<"a">>
    /\ password = <<"a">>
    /\ \E id \in BOOLEAN, pk \in BOOLEAN, r \in BatchRows :
        sys_tables \in {(1 :> UserTable(id, pk, r))}
                       \cup {(1 :> UserTable(id, pk, r)) @@ (2 :> UserTable(id2, TRUE, 1)) :
                                id2 \in BOOLEAN}
    /\ sys_foreign_keys = <<>>

BatchSpec == InitBatches /\ [][Next]_vars

\* row values of every kind the chain of tests of _generate_data names, of
\* the numeric types, and of two types it does not name: uuid.UUID (pyodbc
\* with native_uuid) and the result of an output converter
RowValues ==
    {Value("NoneType", <<>>),
     Value("str", <<"a">>), Value("str", <<"O", Quote, "B">>),
     Value("datetime", <<"2024-01-31 10:00:00">>),
     Value("bytes", <<>>), Value("bytes", <<"\\x00", "\\xab">>),
     Value("bool", <<"True">>), Value("bool", <<"False">>),
     Value("int", <<"1">>), Value("float", <<"10.5">>), Value("Decimal", <<"10.50">>),
     Value("UUID", <<"6f9619ff-8b86-d011-b42d-00c04fc964ff">>),
     Value("Converted", <<"x", Quote, ";">>)}

\* the identity declarations of sys.identity_columns: none, or a seed and an
\* increment
IdentityColumns ==
    {[is_identity |-> FALSE, seed |-> 0, increment |-> 0]}
    \cup {[is_identity |-> TRUE, seed |-> s, increment |-> i] : s \in {1, 1000}, i \in {1, 5}}

\* one table with one row, of any row value and any identity declaration
InitColumns ==
    /\ InitCall
    /\ user = <<"a">>
    /\ password = <<"a">>
    /\ \E id \in IdentityColumns, value \in RowValues :
        sys_tables = (1 :> ColumnTable(id.is_identity, id.seed, id.increment, TRUE, 1, value))
    /\ sys_foreign_keys = <<>>

ColumnsSpec == InitColumns /\ [][Next]_vars

\* ------------------------------------------------------------------ properties

Positions == 1..Len(script)

Kinds(ks) == {i \in Positions : script[i].k \in ks}

Failure(error) == <<BackupResult(FALSE, None, error)>>

Success == <<BackupResult(TRUE, ScriptPath, None)>>

HasPlaceholder(s) == \E i \in 1..(Len(s) - 1) : s[i] = "$" /\ s[i + 1] = "{"

BadCredentials ==
    \/ user = <<>>
    \/ password = <<>>
    \/ HasPlaceholder(user)
    \/ HasPlaceholder(password)

\* C1: a call of backup() with an empty user or password, or with "${" in one
\* of them, ends in Validating with a success=false result: _connect is never
\* called, no connection exists and no script file is created or written.
C1_BadCredentialsFailInValidating ==
    BadCredentials /\ pc # "Validating" =>
        /\ pc = "Failed"
        /\ results \in {Failure(ErrCredentials), Failure(ErrUnresolved)}
        /\ connect_calls = 0
        /\ conn = "none"
        /\ ~file_exists
        /\ script = <<>>

C1_Witness ==
    /\ pc = "Failed"
    /\ user = <<"a">>
    /\ password = <<"$", "{">>
    /\ results = Failure(ErrUnresolved)

\* C2: when backup() has returned (Done or Failed) no connection is open, and
\* every return made after the connection was opened (success, schema-phase
\* failure, data-phase failure, exception while the script is written) leaves
\* it closed.
C2_ConnectionClosedOnReturn ==
    pc \in Terminal =>
        /\ conn # "open"
        /\ (file_exists \/ results \in {Success, Failure(ErrSchema), Failure(ErrData)}
                => conn = "closed")

C2_Witness ==
    /\ pc = "Failed"
    /\ results = Failure(ErrData)
    /\ conn = "closed"
    /\ Kinds({"INSERT"}) # {}

ExtrasSteps == {"Defaults", "Indexes", "Procedures", "ForeignKeys", "Triggers"}

StepBanner(step) ==
    CASE step = "Defaults" -> "DEFAULTS_BANNER"
      [] step = "Indexes" -> "INDEXES_BANNER"
      [] step = "Procedures" -> "PROCEDURES_BANNER"
      [] step = "ForeignKeys" -> "FOREIGN_KEYS_BANNER"
      [] step = "Triggers" -> "TRIGGERS_BANNER"

StepWarning(step) ==
    CASE step = "Defaults" -> "WARNING DEFAULTs"
      [] step = "Indexes" -> "WARNING indices"
      [] step = "Procedures" -> "WARNING procedimientos"
      [] step = "ForeignKeys" -> "WARNING FKs"
      [] step = "Triggers" -> "WARNING TRIGGERS"

StepAfter(step) ==
    CASE step = "Defaults" -> "Indexes"
      [] step = "Indexes" -> "Procedures"
      [] step = "Procedures" -> "ForeignKeys"
      [] step = "ForeignKeys" -> "Triggers"
      [] step = "Triggers" -> "Finishing"

Logged(msg, e) == \E i \in 1..Len(log) : log[i] = [msg |-> msg, e |-> e]

QueryFailedIn(step) == Logged(StepWarning(step), "query")

ExtrasNeverFatal ==
    /\ pc \in ExtrasSteps \cup {"Finishing"} => results = <<>>
    /\ pc = "Done" => results = Success
    /\ \A step \in ExtrasSteps :
        /\ QueryFailedIn(step) => Kinds({StepBanner(step)}) = {}
        /\ (\E i \in 1..Len(log) : log[i].msg = StepWarning(step)) => pc # "Failed"

ExtrasStepGoesOn ==
    pc \in ExtrasSteps =>
        /\ pc' = StepAfter(pc)
        /\ results' = results
        /\ (log' = Append(log, [msg |-> StepWarning(pc), e |-> "query"]) => script' = script)

\* C3: once the schema phase and the data phase succeeded, backup() returns
\* success=true whatever extras steps fail: every extras step is followed by
\* the next one whether it failed or not, a failed step only logs a warning,
\* and a step whose catalog query failed wrote no section banner.
C3_ExtrasFailuresAreNotFatal == [](ExtrasNeverFatal) /\ [][ExtrasStepGoesOn]_vars

C3_Witness ==
    /\ pc = "Done"
    /\ results = Success
    /\ \A step \in ExtrasSteps : QueryFailedIn(step)
    /\ Kinds({"INSERT"}) # {}

\* C4 (as claimed): every fatal failure returns one success=false result with
\* an error message, and after a failure in the schema phase or the data
\* phase the script file written so far has been removed.
C4_PartialScriptRemovedOnFatalFailure ==
    pc = "Failed" =>
        /\ Len(results) = 1
        /\ ~results[1].success
        /\ results[1].error # None
        /\ (results[1].error \in {ErrSchema, ErrData} => ~file_exists)

\* C5: every call of backup() returns, with exactly one BackupResult that is
\* either success=true with the script path or success=false with an error,
\* and no exception leaves backup().
C5_BackupReturnsOneResult ==
    /\ [](/\ ~raised
          /\ Len(results) <= 1
          /\ (pc \in Terminal <=> Len(results) = 1)
          /\ \A i \in 1..Len(results) :
                \/ results[i] = [success |-> TRUE, output_file |-> ScriptPath, error |-> None]
                \/ /\ ~results[i].success
                   /\ results[i].output_file = None
                   /\ results[i].error # None)
    /\ <>(pc \in Terminal)

C5_Witness ==
    /\ pc = "Failed"
    /\ conn = "closed"
    /\ results = Failure(ErrException)
    /\ ~raised

\* the section a statement or banner belongs to, in the order header, schema,
\* data, defaults, indexes, procedures, foreign keys, triggers (0: a batch
\* separator, which every section writes)
SectionOf(k) ==
    CASE k \in {"HEADER", "USE"} -> 1
      [] k \in {"SCHEMA_BANNER", "TABLE_COMMENT", "DROP_TABLE", "CREATE_TABLE",
                "ADD_PRIMARY_KEY"} -> 2
      [] k \in {"DATA_BANNER", "DATA_COMMENT", "IDENTITY_INSERT_ON", "INSERT",
                "IDENTITY_INSERT_OFF"} -> 3
      [] k \in {"DEFAULTS_BANNER", "ADD_DEFAULT"} -> 4
      [] k \in {"INDEXES_BANNER", "CREATE_INDEX"} -> 5
      [] k \in {"PROCEDURES_BANNER", "DROP_PROCEDURE", "CREATE_PROCEDURE"} -> 6
      [] k \in {"FOREIGN_KEYS_BANNER", "ADD_FOREIGN_KEY"} -> 7
      [] k \in {"TRIGGERS_BANNER", "DROP_TRIGGER", "CREATE_TRIGGER"} -> 8
      [] k = "GO" -> 0

SectionBanners ==
    {"HEADER", "SCHEMA_BANNER", "DATA_BANNER", "DEFAULTS_BANNER", "INDEXES_BANNER",
     "PROCEDURES_BANNER", "FOREIGN_KEYS_BANNER", "TRIGGERS_BANNER"}

\* C6: in the script of a successful backup() the sections present follow the
\* order header, schema, data, defaults, indexes, procedures, foreign keys,
\* triggers: nothing of a section precedes anything of an earlier section,
\* and each section banner is written at most once.
C6_SectionsInDocumentOrder ==
    pc = "Done" =>
        /\ LET sections == SelectSeq([i \in Positions |-> SectionOf(script[i].k)],
                                     LAMBDA x : x # 0)
           IN \A i \in 1..(Len(sections) - 1) : sections[i] <= sections[i + 1]
        /\ \A b \in SectionBanners : Cardinality(Kinds({b})) <= 1
        /\ script[1].k = "HEADER"

C6_Witness ==
    /\ pc = "Done"
    /\ \A b \in SectionBanners : Kinds({b}) # {}
    /\ Kinds({"INSERT"}) # {}
    /\ Kinds({"ADD_FOREIGN_KEY"}) # {}

\* C7 (as claimed): every foreign-key statement of the script comes after the
\* CREATE TABLE statement of its owning table and of its referenced table,
\* and after every INSERT statement.
C7_ForeignKeysAfterTheirTables ==
    \A i \in Kinds({"ADD_FOREIGN_KEY"}) :
        /\ \E j \in Kinds({"CREATE_TABLE"}) : j < i /\ script[j].t = script[i].t
        /\ \E j \in Kinds({"CREATE_TABLE"}) : j < i /\ script[j].t = script[i].r
        /\ \A j \in Kinds({"INSERT"}) : j < i

\* the data phase has completed successfully
DataPhaseDone == pc \in ExtrasSteps \cup {"Finishing", "Done"}

\* the tables backup() exports
Exported == {t \in DOMAIN sys_tables : ~sys_tables[t].is_ms_shipped}

Of(t, ks) == {i \in Kinds(ks) : script[i].t = t}

\* C8: after the data phase, the block of a table with an identity column and
\* N >= 1 rows holds IDENTITY_INSERT ON exactly once, directly before the
\* INSERT of the first row, and IDENTITY_INSERT OFF exactly once, directly
\* after the batch separator that follows the INSERT of the last row, with
\* every INSERT of the table between them; a table without identity column
\* has neither.
C8_IdentityToggleBracketsAllBatches ==
    DataPhaseDone =>
        \A t \in Exported :
            LET on == Of(t, {"IDENTITY_INSERT_ON"})
                off == Of(t, {"IDENTITY_INSERT_OFF"})
                rows == sys_tables[t].rows
            IN IF sys_tables[t].is_identity /\ rows >= 1
               THEN /\ Cardinality(on) = 1
                    /\ Cardinality(off) = 1
                    /\ \A i \in on : /\ script[i + 1].k = "INSERT"
                                     /\ script[i + 1].t = t
                                     /\ script[i + 1].n = 1
                    /\ \A i \in off : /\ script[i - 1].k = "GO"
                                      /\ script[i - 2].k = "INSERT"
                                      /\ script[i - 2].t = t
                                      /\ script[i - 2].n = rows
                    /\ \A i \in on : \A j \in off : \A m \in Of(t, {"INSERT"}) :
                          i < m /\ m < j
                    /\ Cardinality(Of(t, {"INSERT"})) = rows
               ELSE on = {} /\ off = {}

C8_Witness ==
    /\ pc = "Done"
    /\ sys_tables[1].is_identity
    /\ sys_tables[1].rows = 2 * BatchSize + 1
    /\ Cardinality(Of(1, {"INSERT"})) = 2 * BatchSize + 1
    /\ Cardinality(Of(1, {"IDENTITY_INSERT_ON"})) = 1

DataKinds == {"DATA_COMMENT", "IDENTITY_INSERT_ON", "INSERT", "IDENTITY_INSERT_OFF"}

\* the tokens the data phase wrote after its banner
DataSection ==
    LET start == Kinds({"DATA_BANNER"})
        later == Kinds(SectionBanners \ {"HEADER", "SCHEMA_BANNER", "DATA_BANNER"})
    IN {i \in Positions : (\E b \in start : b < i) /\ (\A b \in later : i < b)}

\* C9: the data phase writes nothing for a table without rows (no comment,
\* INSERT, batch separator or identity toggle), the schema phase writes its
\* drop-if-exists guard and its CREATE TABLE all the same, and the tables
\* after it still get their INSERTs.
C9_EmptyTableSkippedInDataOnly ==
    /\ \A t \in Exported : sys_tables[t].rows = 0 => Of(t, DataKinds) = {}
    /\ pc \in {"DataPhase"} \cup ExtrasSteps \cup {"Finishing", "Done"} =>
          \A t \in Exported :
              \E i \in Of(t, {"DROP_TABLE"}) : \E j \in Of(t, {"CREATE_TABLE"}) : i < j
    /\ DataPhaseDone =>
          /\ \A t \in Exported : Cardinality(Of(t, {"INSERT"})) = sys_tables[t].rows
          /\ LET data == DataSection
             IN /\ (\A t \in Exported : sys_tables[t].rows = 0) => data = {}
                /\ \A i \in data : script[i].k = "GO" => script[i - 1].k = "INSERT"

C9_Witness ==
    /\ pc = "Done"
    /\ 1 \in Exported /\ sys_tables[1].rows = 0
    /\ 2 \in Exported /\ sys_tables[2].rows = 1
    /\ Of(1, {"CREATE_TABLE"}) # {}
    /\ Of(2, {"INSERT"}) # {}

\* the phase a position of backup() belongs to: the header is written at the
\* start of script generation, the extras steps and the final return follow
\* the data phase
PhaseRank(p) ==
    CASE p = "Validating" -> 1
      [] p = "Connecting" -> 2
      [] p \in {"Header", "SchemaPhase"} -> 3
      [] p = "DataPhase" -> 4
      [] p \in ExtrasSteps \cup {"Finishing"} -> 5
      [] p = "Done" -> 6

PhaseStep ==
    /\ pc \in Terminal => UNCHANGED vars
    /\ pc' # pc /\ pc' # "Failed" => PhaseRank(pc') \in {PhaseRank(pc), PhaseRank(pc) + 1}
    /\ pc' = "DataPhase" =>
          /\ ~\E i \in 1..Len(log') : log'[i].msg = "ERROR _generate_schema"
          /\ pc = "SchemaPhase"
    /\ pc' \in ExtrasSteps \cup {"Finishing", "Done"} =>
          ~\E i \in 1..Len(log') : log'[i].msg \in {"ERROR _generate_schema", "ERROR _generate_data"}
    /\ (\E i \in 1..Len(log') : log'[i].msg \in
            {"ERROR backup", "ERROR _connect", "ERROR _generate_schema", "ERROR _generate_data"})
          => pc' = "Failed"

\* C10: backup() goes through Validating, Connecting, SchemaPhase, DataPhase,
\* ExtrasPhase, Done in this order, one phase at a time; the data phase starts
\* only from a schema phase that logged no error, the extras steps only after
\* a data phase that logged no error; a logged error ends the call in Failed,
\* and nothing changes once the call is Done or Failed.
C10_PhasesStrictlySequential == [][PhaseStep]_vars

C10_Witness ==
    /\ pc = "Failed"
    /\ results = Failure(ErrSchema)
    /\ Kinds({"CREATE_TABLE"}) # {}
    /\ Kinds({"DATA_BANNER"}) = {}


ForeignKeyStatements == Kinds({"ADD_FOREIGN_KEY"})

\* C11 (as claimed): foreign keys are the last schema objects of the script:
\* no default-constraint, index, stored-procedure or trigger statement comes
\* after a foreign-key statement.
C11_ForeignKeysLast ==
    \A i \in ForeignKeyStatements :
        \A j \in Kinds({"ADD_DEFAULT", "CREATE_INDEX", "DROP_PROCEDURE", "CREATE_PROCEDURE",
                        "DROP_TRIGGER", "CREATE_TRIGGER"}) : j < i

\* C11 (amended): no default-constraint, index or stored-procedure statement
\* comes after a foreign-key statement, and every trigger statement comes
\* after every foreign-key statement.
C11_ForeignKeysAfterProceduresBeforeTriggers ==
    \A i \in ForeignKeyStatements :
        /\ \A j \in Kinds({"ADD_DEFAULT", "CREATE_INDEX", "DROP_PROCEDURE",
                           "CREATE_PROCEDURE"}) : j < i
        /\ \A j \in Kinds({"DROP_TRIGGER", "CREATE_TRIGGER"}) : i < j

C11_Witness ==
    /\ pc = "Done"
    /\ ForeignKeyStatements # {}
    /\ \A k \in {"ADD_DEFAULT", "CREATE_INDEX", "CREATE_PROCEDURE", "CREATE_TRIGGER"} :
          Kinds({k}) # {}


\* the INSERT statements of table t directly followed by a batch separator
BatchEnds(t) == {i \in Of(t, {"INSERT"}) : i < Len(script) /\ script[i + 1].k = "GO"}

IsInsertOf(i, t, n) ==
    /\ i \in Positions
    /\ script[i].k = "INSERT"
    /\ script[i].t = t
    /\ script[i].n = n

\* the blocks of INSERT statements of the script, table by table
BatchesWellFormed ==
        \A t \in Exported :
            LET rows == sys_tables[t].rows
                inserts == Of(t, {"INSERT"})
            IN rows >= 1 =>
                /\ Cardinality(inserts) = rows
                /\ \E i \in inserts : script[i].n = 1
                /\ \A i \in inserts :
                      LET n == script[i].n
                      IN /\ n \in 1..rows
                         /\ IF n % BatchSize = 0 \/ n = rows
                            THEN /\ script[i + 1].k = "GO"
                                 /\ i + 2 <= Len(script) => script[i + 2].k # "GO"
                                 /\ n < rows => IsInsertOf(i + 2, t, n + 1)
                            ELSE IsInsertOf(i + 1, t, n + 1)
                /\ Cardinality(BatchEnds(t)) = (rows + BatchSize - 1) \div BatchSize

\* C13: when the data phase succeeds, the block it wrote for a table with
\* N >= 1 rows holds exactly N INSERT statements, one per row in fetch order;
\* the INSERT of every 400th row and of the last row is followed by exactly
\* one GO and then by the INSERT of the next row (if any), every other INSERT
\* directly by the INSERT of the next row; so the block holds ceil(N/400)
\* separators and at most 400 INSERTs between two of them.
C13_BatchesOfAtMost400EndWithGo ==
    [][pc = "DataPhase" /\ pc' \in ExtrasSteps => BatchesWellFormed']_vars

C13_Witness ==
    /\ pc = "Done"
    /\ sys_tables[1].rows = 2 * BatchSize + 1
    /\ Cardinality(BatchEnds(1)) = 3
    /\ \E i \in BatchEnds(1) : script[i].n = 2 * BatchSize + 1


\* the types the chain of tests of the encoder names, and the numeric scalars
\* its last branch is meant for
RecognizedTypes ==
    {"NoneType", "str", "bytes", "bytearray", "bool", "int", "float", "Decimal"}
    \cup IsoformatTypes

\* the exported tables with rows whose value is of no recognized type
UnrecognizedTables ==
    {t \in Exported : sys_tables[t].rows >= 1 /\ sys_tables[t].value.type \notin RecognizedTypes}

\* C12: for a table whose rows hold a value of no recognized type, the data
\* phase does not complete (backup() never gets to the extras steps), and no
\* INSERT statement of the script carries the unquoted, unescaped rendering
\* of that value.
C12_UnrecognizedValueRejected ==
    \A t \in UnrecognizedTables :
        /\ ~DataPhaseDone
        /\ \A i \in Of(t, {"INSERT"}) : script[i].v # sys_tables[t].value.content

\* C14: the identity annotation of every CREATE TABLE statement written for
\* a table with an identity column carries the seed and the increment the
\* catalog reports for that column.
C14_IdentitySeedAndIncrementAsCatalog ==
    \A i \in Kinds({"CREATE_TABLE"}) :
        LET table == sys_tables[script[i].t]
        IN table.is_identity =>
              /\ script[i].r = table.seed_value
              /\ script[i].n = table.increment_value

====
